---------------------------- MODULE Spec2Model ----------------------------
(***************************************************************************)
(* A model of the forward proxy in src/src/main.rs: the acceptor loop of   *)
(* main, the handshake of handle_connection (read, parse, connect, reply   *)
(* or forward) and the relay loop that alternates two calls of pipe.       *)
(*                                                                         *)
(* A byte on a socket is a record [k, c, i]: k is what the byte is, c the  *)
(* connection whose peer produced it (0 for a byte the proxy itself        *)
(* produces) and i its position in the stream it comes from.  The first    *)
(* request is modelled unit by unit (method, target, version line, header  *)
(* line, header byte, ...), and the sizes of the program's arrays are      *)
(* scaled down: the scaled sizes are the bounds below.                     *)
(***************************************************************************)
EXTENDS Naturals, Sequences, FiniteSets

(***************************************************************************)
(* Bounds.                                                                 *)
(***************************************************************************)
\* scaled length of initial_request_buffer ([0; 1024] in the source)
InitialRequestBufferLen == 6
\* scaled length of the headers array ([httparse::EMPTY_HEADER; 16])
MaxHeaders == 1
\* scaled length of client_buffer and server_buffer ([0; 4096])
BufferLen == 2
\* bytes a client sends after its first request, and bytes an upstream sends
MaxData == 2
\* how many bytes short of the whole buffer a partial write may fall
MaxShort == 1
\* addresses a host name may resolve to
MaxAddrs == 2

\* the connections the listener yields: two, the least that can interfere
Conns == {1, 2}

Min(a, b) == IF a < b THEN a ELSE b

(***************************************************************************)
(* Bytes.                                                                  *)
(***************************************************************************)
Byte(k, c, i) == [k |-> k, c |-> c, i |-> i]

\* the 0 of [0; 1024] and [0; 4096]
NUL == Byte("NUL", 0, 0)

Zeros(n) == [j \in 1..n |-> NUL]

\* b"HTTP/1.1 200 OK\r\n\r\n"
ReplyText ==
    << "H", "T", "T", "P", "/", "1", ".", "1", " ", "2", "0", "0", " ",
       "O", "K", "\r", "\n", "\r", "\n" >>

Reply == [j \in 1..Len(ReplyText) |-> Byte(ReplyText[j], 0, j)]

Take(s, n) == SubSeq(s, 1, Min(n, Len(s)))

Drop(s, n) == SubSeq(s, n + 1, Len(s))

IsPrefix(s, t) == Len(s) <= Len(t) /\ s = SubSeq(t, 1, Len(s))

\* buf with its first Len(data) bytes overwritten by data (Read::read)
Fill(buf, data) ==
    [j \in 1..Len(buf) |-> IF j <= Len(data) THEN data[j] ELSE buf[j]]

(***************************************************************************)
(* What clients send.  A first request is a sequence of units:             *)
(*   CONNECT, GET      the method and the space after it                   *)
(*   AUTH              a host:port target                                  *)
(*   URL, URLPORT      an absolute http URL without, with a port           *)
(*   REL               an origin-form target ("/")                         *)
(*   VER               " HTTP/1.1\r\n"                                     *)
(*   HDR               one whole header line                               *)
(*   HB, HEOL          one byte of a long header line, and its line end    *)
(*   END               the empty line that ends the headers                *)
(*   BAD               a byte no request may hold                          *)
(*   DATA              a byte that follows the request                     *)
(***************************************************************************)
Methods == {"CONNECT", "GET"}

Targets == {"AUTH", "URL", "URLPORT", "REL"}

RequestLine(m, t) == << m, t, "VER" >>

Rep(u, n) == [j \in 1..n |-> u]

\* well-formed requests
ConnectReq == RequestLine("CONNECT", "AUTH") \o << "END" >>
GetReq == RequestLine("GET", "URL") \o << "HDR", "END" >>
GetPortReq == RequestLine("GET", "URLPORT") \o << "END" >>
\* a request whose target is no absolute URL
GetRelReq == RequestLine("GET", "REL") \o << "END" >>
\* one header more than the headers array holds
TooManyHeadersReq(m, t) == RequestLine(m, t) \o Rep("HDR", MaxHeaders + 1) \o << "END" >>
\* a header line that does not end within the request buffer
LongHeaderReq(m, t) == RequestLine(m, t) \o Rep("HB", InitialRequestBufferLen)
\* no request at all
GarbageReq == << "BAD" >>

WithData(req, n) == req \o Rep("DATA", n)

\* the byte stream client c sends, from the units it is made of
Stream(c, units) == [j \in 1..Len(units) |-> Byte(units[j], c, j)]

\* the byte stream the upstream of connection c sends
ServerStream(c, n) == [j \in 1..n |-> Byte("SDATA", c, j)]

(***************************************************************************)
(* httparse::Request::parse over the whole request buffer, as              *)
(* handle_connection calls it (main.rs 60-62).  The result is              *)
(* [status, method, path]: status Err is Err(_), Partial is                *)
(* Ok(Status::Partial), Complete is Ok(Status::Complete(_)); method and    *)
(* path are set as soon as the parser is past them.                        *)
(***************************************************************************)
None == "None"

\* request.path before the parser has set it
NoPath == Byte("None", 0, 0)

ParseResult(s, m, p) == [status |-> s, method |-> m, path |-> p]

RECURSIVE ParseHeaders(_, _, _, _, _, _)
\* inLine: inside a header line begun by HB; n: headers stored so far
ParseHeaders(buf, j, n, inLine, m, p) ==
    IF j > Len(buf) THEN ParseResult("Partial", m, p)
    ELSE LET k == buf[j].k IN
         IF inLine
         THEN IF k = "HB" THEN ParseHeaders(buf, j + 1, n, TRUE, m, p)
              ELSE IF k = "HEOL" THEN ParseHeaders(buf, j + 1, n + 1, FALSE, m, p)
              ELSE ParseResult("Err", m, p)
         ELSE IF k = "END" THEN ParseResult("Complete", m, p)
              ELSE IF k \in {"HDR", "HB"}
                   THEN IF n >= MaxHeaders THEN ParseResult("Err", m, p)
                        ELSE IF k = "HDR"
                             THEN ParseHeaders(buf, j + 1, n + 1, FALSE, m, p)
                             ELSE ParseHeaders(buf, j + 1, n, TRUE, m, p)
              ELSE ParseResult("Err", m, p)

Parse(buf) ==
    IF Len(buf) < 1 THEN ParseResult("Partial", None, NoPath)
    ELSE IF buf[1].k \notin Methods THEN ParseResult("Err", None, NoPath)
    ELSE LET m == buf[1].k IN
         IF Len(buf) < 2 THEN ParseResult("Partial", m, NoPath)
         ELSE IF buf[2].k \notin Targets THEN ParseResult("Err", m, NoPath)
         ELSE LET p == buf[2] IN
              IF Len(buf) < 3 THEN ParseResult("Partial", m, p)
              ELSE IF buf[3].k # "VER" THEN ParseResult("Err", m, p)
              ELSE ParseHeaders(buf, 4, 0, FALSE, m, p)

(***************************************************************************)
(* What a socket call may answer.  A read answers Ok(n), WouldBlock or     *)
(* another error; a write answers Ok(n) with n the whole buffer less       *)
(* `short` bytes, Ok(0), WouldBlock or another error.                      *)
(***************************************************************************)
ReadOutcomes(avail, cap) ==
    {[t |-> "ok", n |-> n] : n \in 0..Min(avail, cap)}
        \cup {[t |-> "wouldblock", n |-> 0], [t |-> "err", n |-> 0]}

WriteOutcomes ==
    {[t |-> "ok", short |-> d] : d \in 0..MaxShort}
        \cup {[t |-> "ok0", short |-> 0], [t |-> "wouldblock", short |-> 0],
              [t |-> "err", short |-> 0]}

\* a socket still in blocking mode never answers WouldBlock
BlockingReadOutcomes(avail, cap) ==
    {rd \in ReadOutcomes(avail, cap) : rd.t # "wouldblock"}

BlockingWriteOutcomes == {wr \in WriteOutcomes : wr.t \in {"ok", "err"}}

\* the n of Ok(n) for a write of len bytes
Written(len, wr) ==
    IF wr.t = "ok" /\ wr.short < len THEN len - wr.short ELSE 0

(***************************************************************************)
(* fn pipe (main.rs 20-54), given what the read and the write answer.      *)
(* in_avail is what in_stream holds unread.  The result is the Result the  *)
(* function returns (status Ok with bytes_to_pass, or SocketClosed, or     *)
(* Unknown with its detail), the buffer as the call leaves it, and what    *)
(* the call did to the sockets: nread bytes taken from in_stream, the      *)
(* bytes written to out_stream, and which stream answered 0.               *)
(***************************************************************************)
\* a faulty variant: the whole buffer is handed to write, not its pending part
WriteWholeBuffer(buffer, bytes_to_pass) == buffer

\* &buffer[0..bytes_to_pass] (main.rs 38)
WriteSlice(buffer, bytes_to_pass) == Take(buffer, bytes_to_pass)

PipeRet(status, detail, n, buffer, nread, written, zero) ==
    [status |-> status, detail |-> detail, bytes_to_pass |-> n,
     buffer |-> buffer, nread |-> nread, written |-> written, zero |-> zero]

\* a faulty variant: every call reads the source, pending bytes or not
ReadsAlways(bytes_to_pass) == TRUE

\* if bytes_to_pass == 0 (main.rs 26): whether the call reads in_stream
ReadsSource(bytes_to_pass) == bytes_to_pass = 0

\* a faulty variant: a write that would block gives its bytes up
DroppedOnWouldBlock(bytes_to_pass) == 0

\* Err(e) if e.kind() == WouldBlock => () (main.rs 47), then
\* Ok(bytes_to_pass) (main.rs 53): the counter a blocked write leaves
AfterWouldBlock(bytes_to_pass) == bytes_to_pass

\* a faulty variant: a short write counts as progress and the rest is kept
\* for the next call
ShortWriteKeepsRest(n, buf, nread, w) ==
    PipeRet("Ok", "", n - w, buf, nread, Take(WriteSlice(buf, n), w), "none")

\* a faulty variant: a read that would block passes the buffer's old contents
StaleOnWouldBlock(buffer) == Len(buffer)

\* Err(e) if e.kind() == WouldBlock => 0 (main.rs 31): the count a read that
\* would block gives
ReadWouldBlock(buffer) == 0

\* Ok(_) (main.rs 41-45): w of the n pending bytes were accepted, 0 < w < n
ShortWrite(n, buf, nread, w) ==
    PipeRet("Unknown", "Unable to write all bytes to stream",
            n, buf, nread, Take(WriteSlice(buf, n), w), "none")

pipe(in_avail, buffer, bytes_to_pass, rd, wr) ==
    LET reads == ReadsSource(bytes_to_pass)
        got == IF reads /\ rd.t = "ok" THEN Take(in_avail, rd.n) ELSE << >>
        buf == Fill(buffer, got)
        n == IF ~reads THEN bytes_to_pass
             ELSE IF rd.t = "wouldblock" THEN ReadWouldBlock(buffer)
             ELSE Len(got)
        w == Written(n, wr)
    IN  IF reads /\ rd.t = "ok" /\ rd.n = 0
        THEN PipeRet("SocketClosed", "", 0, buffer, 0, << >>, "in")
        ELSE IF reads /\ rd.t = "err"
        THEN PipeRet("Unknown", "read error", 0, buffer, 0, << >>, "none")
        ELSE IF n > 0
        THEN IF wr.t \in {"ok", "ok0"} /\ w = 0
             THEN PipeRet("SocketClosed", "", n, buf, Len(got), << >>, "out")
             ELSE IF wr.t = "ok" /\ w = n
             THEN PipeRet("Ok", "", 0, buf, Len(got), WriteSlice(buf, n), "none")
             ELSE IF wr.t = "ok"
             THEN ShortWrite(n, buf, Len(got), w)
             ELSE IF wr.t = "wouldblock"
             THEN PipeRet("Ok", "", AfterWouldBlock(n), buf, Len(got), << >>, "none")
             ELSE PipeRet("Unknown", "write error", n, buf, Len(got), << >>, "none")
        ELSE PipeRet("Ok", "", 0, buf, 0, << >>, "none")

(***************************************************************************)
(* Opening the upstream connection.  The target resolves to n addresses    *)
(* (0: the name does not resolve) and the a-th of them is the first that   *)
(* accepts a connection (0: none does).  The result says whether a stream  *)
(* was made, the error otherwise, the address connected to and how many    *)
(* connects were attempted.                                                *)
(***************************************************************************)
DefaultPort == "80"

NoAddr == [host |-> 0, port |-> ""]

ConnectRet(ok, err, addr, attempts) ==
    [ok |-> ok, err |-> err, addr |-> addr, attempts |-> attempts]

\* a faulty variant: a target that accepts no connection is taken as connected
ConnectTunnelUnchecked(path, n, a) ==
    IF path.k # "AUTH" THEN ConnectRet(FALSE, "invalid socket address", NoAddr, 0)
    ELSE IF n = 0 THEN ConnectRet(FALSE, "failed to lookup address", NoAddr, 0)
    ELSE ConnectRet(TRUE, "", [host |-> path.c, port |-> "given"], n)

\* TcpStream::connect(path) (main.rs 69): path taken as "host:port", every
\* resolved address tried in turn until one accepts
ConnectTunnel(path, n, a) ==
    IF path.k # "AUTH" THEN ConnectRet(FALSE, "invalid socket address", NoAddr, 0)
    ELSE IF n = 0 THEN ConnectRet(FALSE, "failed to lookup address", NoAddr, 0)
    ELSE IF a = 0 \/ a > n THEN ConnectRet(FALSE, "connect error", NoAddr, n)
    ELSE ConnectRet(TRUE, "", [host |-> path.c, port |-> "given"], a)

\* a faulty variant: the plain-HTTP branch goes on to the other addresses
ConnectHttpFallback(path, n, a) ==
    IF path.k = "REL" THEN ConnectRet(FALSE, "relative URL without a base", NoAddr, 0)
    ELSE IF path.k = "AUTH" THEN ConnectRet(FALSE, "No host name in the URL", NoAddr, 0)
    ELSE IF n = 0 THEN ConnectRet(FALSE, "failed to lookup address", NoAddr, 0)
    ELSE IF a = 0 \/ a > n THEN ConnectRet(FALSE, "connect error", NoAddr, n)
    ELSE ConnectRet(TRUE, "",
                    [host |-> path.c,
                     port |-> IF path.k = "URL" THEN DefaultPort ELSE "given"], a)

\* Url::parse, socket_addrs(|| Some(80)), get(0), TcpStream::connect(addr)
\* (main.rs 76-82)
ConnectHttp(path, n, a) ==
    IF path.k = "REL" THEN ConnectRet(FALSE, "relative URL without a base", NoAddr, 0)
    ELSE IF path.k = "AUTH" THEN ConnectRet(FALSE, "No host name in the URL", NoAddr, 0)
    ELSE IF n = 0 THEN ConnectRet(FALSE, "failed to lookup address", NoAddr, 0)
    ELSE IF a # 1 THEN ConnectRet(FALSE, "connect error", NoAddr, 1)
    ELSE ConnectRet(TRUE, "",
                    [host |-> path.c,
                     port |-> IF path.k = "URL" THEN DefaultPort ELSE "given"], 1)

(***************************************************************************)
(* State.                                                                  *)
(*   clients        for each client that connects: req, the units of what  *)
(*                  it sends; srv, how many bytes its upstream sends;      *)
(*                  addrs, how many addresses its target resolves to;      *)
(*                  accepts, the first of them that accepts a connection   *)
(*   listening      main is in its for loop over listener.incoming()       *)
(*   accepted       connections the listener has yielded                   *)
(*   h              the locals of each handle_connection call, and where   *)
(*                  the call is                                            *)
(*   client_stream, server_stream                                          *)
(*                  each handler's sockets: none, open or closed           *)
(*   net            per connection, what has crossed its sockets:          *)
(*                  clientRead, serverRead bytes taken from the client     *)
(*                  and the upstream socket, clientRecv, serverRecv the    *)
(*                  bytes written to them, the upstream address, the       *)
(*                  connects attempted, handshake the bytes the first      *)
(*                  read took, zero the socket that answered 0, and last   *)
(*                  what the last pipe call returned (Ok, SocketClosed,    *)
(*                  Unknown)                                               *)
(*   result         what each handle_connection call returned              *)
(***************************************************************************)
VARIABLES clients, listening, accepted, h, client_stream,
          server_stream, net, result

vars == << clients, listening, accepted, h, client_stream,
           server_stream, net, result >>

\* the requests one client alone is tried with
Requests ==
    { WithData(ConnectReq, MaxData), WithData(GetReq, MaxData),
      GetPortReq, GetRelReq, RequestLine("CONNECT", "URL") \o << "END" >>,
      TooManyHeadersReq("GET", "URL"), LongHeaderReq("CONNECT", "AUTH"),
      LongHeaderReq("GET", "URL"), GarbageReq }

\* the requests several concurrent clients are tried with
ConcurrentRequests == { WithData(ConnectReq, 1), GetPortReq }

Client(r, srv, n, a) == [req |-> r, srv |-> srv, addrs |-> n, accepts |-> a]

\* one client with any request and any upstream, or one client per
\* connection with a short exchange each
Workloads ==
    { << Client(r, MaxData, n, a) >> :
          r \in Requests, n \in 0..MaxAddrs, a \in 0..MaxAddrs }
        \cup [ Conns -> { Client(r, 1, 1, 1) : r \in ConcurrentRequests } ]

ClientSends(c) == Stream(c, clients[c].req)

ServerSends(c) == ServerStream(c, clients[c].srv)

\* a handler's locals before they are declared and after they are dropped
NoLocals(pc) ==
    [pc |-> pc, initial_request_buffer |-> << >>, method |-> None,
     path |-> NoPath, client_buffer |-> << >>, server_buffer |-> << >>,
     to_write_to_server |-> 0, to_write_to_client |-> 0]

NoTraffic ==
    [clientRead |-> 0, serverRead |-> 0, clientRecv |-> << >>,
     serverRecv |-> << >>, upstream |-> NoAddr, connects |-> 0,
     handshake |-> 0, zero |-> "none", last |-> "none"]

Running == ""

Init ==
    /\ clients \in Workloads
    /\ listening = TRUE
    /\ accepted = 0
    /\ h = [c \in Conns |-> NoLocals("idle")]
    /\ client_stream = [c \in Conns |-> "none"]
    /\ server_stream = [c \in Conns |-> "none"]
    /\ net = [c \in Conns |-> NoTraffic]
    /\ result = [c \in Conns |-> Running]

(***************************************************************************)
(* main (main.rs 127-147).                                                 *)
(***************************************************************************)
\* a faulty variant: an accept error ends the for loop
StopsListening(l) == FALSE

\* what an accept error does to the for loop: logged, the loop goes on
AfterAcceptError(l) == l

\* Ok(stream): a thread is spawned that calls handle_connection(stream)
Accept ==
    /\ listening
    /\ accepted < Len(clients)
    /\ accepted' = accepted + 1
    /\ h' = [h EXCEPT ![accepted + 1] = NoLocals("read")]
    /\ client_stream' = [client_stream EXCEPT ![accepted + 1] = "open"]
    /\ UNCHANGED << clients, listening, server_stream, net, result >>

\* Err(e): eprintln!
AcceptError ==
    /\ listening
    /\ listening' = AfterAcceptError(listening)
    /\ UNCHANGED << clients, accepted, h, client_stream, server_stream, net, result >>

(***************************************************************************)
(* handle_connection (main.rs 56-125).                                     *)
(***************************************************************************)
\* a faulty variant: a stream that is leaked instead of dropped
Forget(s) == s

\* a stream when the scope that owns it ends
Release(s) == IF s = "open" THEN "closed" ELSE s

\* return Err(e): the locals and both streams are dropped
Return(c, e) ==
    /\ h' = [h EXCEPT ![c] = NoLocals("returned")]
    /\ client_stream' = [client_stream EXCEPT ![c] = Release(@)]
    /\ server_stream' = [server_stream EXCEPT ![c] = Release(@)]
    /\ result' = [result EXCEPT ![c] = e]

Goes(c, hc) ==
    /\ h' = [h EXCEPT ![c] = hc]
    /\ UNCHANGED << client_stream, server_stream, result >>

\* client_stream.read(&mut initial_request_buffer) (main.rs 57-58)
HandshakeRead(c) ==
    /\ h[c].pc = "read"
    /\ \E rd \in BlockingReadOutcomes(Len(ClientSends(c)), InitialRequestBufferLen) :
          IF rd.t = "err"
          THEN Return(c, "read error") /\ UNCHANGED net
          ELSE /\ Goes(c, [h[c] EXCEPT
                      !.pc = "parse",
                      !.initial_request_buffer =
                          Fill(Zeros(InitialRequestBufferLen),
                               Take(ClientSends(c), rd.n))])
               /\ net' = [net EXCEPT ![c].clientRead = rd.n,
                                     ![c].handshake = rd.n]
    /\ UNCHANGED << clients, listening, accepted >>

\* request.parse(&initial_request_buffer), method, path (main.rs 60-65)
HandshakeParse(c) ==
    /\ h[c].pc = "parse"
    /\ LET r == Parse(h[c].initial_request_buffer) IN
          IF r.status = "Err" THEN Return(c, "parse error")
          ELSE IF r.method = None THEN Return(c, "Unable to get request method")
          ELSE IF r.path = NoPath THEN Return(c, "Unable to get request path")
          ELSE Goes(c, [h[c] EXCEPT !.pc = "connect", !.method = r.method,
                                    !.path = r.path])
    /\ UNCHANGED << clients, listening, accepted, net >>

\* a faulty variant: every request is answered as a CONNECT is
AlwaysReply(method) == "reply"

\* a faulty variant: every request is forwarded as a plain-HTTP one is
AlwaysForward(method) == "forward"

\* if method == "CONNECT" { .. } else { .. } (main.rs 67, 74): what follows
\* the connect
AfterConnect(method) == IF method = "CONNECT" THEN "reply" ELSE "forward"

\* TcpStream::connect in either branch (main.rs 67-69, 74-82)
Connect(c) ==
    /\ h[c].pc = "connect"
    /\ LET n == clients[c].addrs
           a == clients[c].accepts
           r == IF h[c].method = "CONNECT"
                THEN ConnectTunnel(h[c].path, n, a)
                ELSE ConnectHttp(h[c].path, n, a)
       IN     /\ net' = [net EXCEPT ![c].connects = r.attempts,
                                    ![c].upstream = r.addr]
              /\ IF r.ok
                 THEN /\ h' = [h EXCEPT ![c].pc = AfterConnect(h[c].method)]
                      /\ server_stream' = [server_stream EXCEPT ![c] = "open"]
                      /\ UNCHANGED << client_stream, result >>
                 ELSE Return(c, r.err)
    /\ UNCHANGED << clients, listening, accepted >>

\* client_stream.write(b"HTTP/1.1 200 OK\r\n\r\n") (main.rs 71)
WriteReply(c) ==
    /\ h[c].pc = "reply"
    /\ \E wr \in BlockingWriteOutcomes :
          IF wr.t = "err"
          THEN Return(c, "write error") /\ UNCHANGED net
          ELSE /\ Goes(c, [h[c] EXCEPT !.pc = "nonblocking"])
               /\ net' = [net EXCEPT ![c].clientRecv =
                              @ \o Take(Reply, Written(Len(Reply), wr))]
    /\ UNCHANGED << clients, listening, accepted >>

\* what the plain-HTTP branch hands to stream.write (main.rs 83)
Forwarded(hc) == hc.initial_request_buffer

\* stream.write(&initial_request_buffer) (main.rs 83)
ForwardRequest(c) ==
    /\ h[c].pc = "forward"
    /\ \E wr \in BlockingWriteOutcomes :
          IF wr.t = "err"
          THEN Return(c, "write error") /\ UNCHANGED net
          ELSE /\ Goes(c, [h[c] EXCEPT !.pc = "nonblocking"])
               /\ net' = [net EXCEPT ![c].serverRecv =
                              @ \o Take(Forwarded(h[c]),
                                        Written(Len(Forwarded(h[c])), wr))]
    /\ UNCHANGED << clients, listening, accepted >>

\* set_nonblocking(true) on both streams, then the buffers and the counters
\* of the relay (main.rs 89-100)
SetNonblocking(c) ==
    /\ h[c].pc = "nonblocking"
    /\ \E ok \in BOOLEAN :
          IF ok
          THEN Goes(c, [h[c] EXCEPT !.pc = "pipe_cs",
                                    !.client_buffer = Zeros(BufferLen),
                                    !.server_buffer = Zeros(BufferLen),
                                    !.to_write_to_server = 0,
                                    !.to_write_to_client = 0])
          ELSE Return(c, "set_nonblocking error")
    /\ UNCHANGED << clients, listening, accepted, net >>

\* what in_stream may answer a pipe call: nothing is asked of it while
\* bytes are pending
Reads(bytes_to_pass, avail) ==
    IF ReadsSource(bytes_to_pass) THEN ReadOutcomes(avail, BufferLen)
    ELSE {[t |-> "wouldblock", n |-> 0]}

\* the socket a pipe call found closed, from the stream that answered 0
ZeroSocket(zero, in, out) ==
    IF zero = "in" THEN in ELSE IF zero = "out" THEN out ELSE "none"

\* a faulty variant: one client buffer shared by every handler
SharedClientBuffer(c) == h[1].client_buffer

\* the buffers of handler c: locals of its own call (main.rs 93, 95)
ClientBuffer(c) == h[c].client_buffer

ServerBuffer(c) == h[c].server_buffer

\* a faulty variant: a closed socket does not end the loop, only an error does
ContinuesUnlessError(r) == r.status # "Unknown"

\* a faulty variant: the loop gives up after a call that moved nothing
ContinuesWhileBusy(r) ==
    r.status = "Ok" /\ (r.nread > 0 \/ r.written # << >> \/ r.bytes_to_pass > 0)

\* Ok(bytes) => bytes (main.rs 109, 120): the loop goes on
Continues(r) == r.status = "Ok"

\* a faulty variant: the first pipe call is repeated until its bytes are
\* written
RetryUntilDrained(bytes) == IF bytes > 0 THEN "pipe_cs" ELSE "pipe_sc"

\* the call that follows the first pipe call, whatever it left pending
\* (main.rs 114)
AfterClientPipe(bytes) == "pipe_sc"

\* the call that follows the second pipe call: loop (main.rs 102-103)
AfterServerPipe(bytes) == "pipe_cs"

\* what handle_connection returns when the first pipe call fails
\* (main.rs 110-111)
ClientPipeError(r) ==
    IF r.status = "SocketClosed" THEN "Client socket closed" ELSE r.detail

\* what handle_connection returns when the second pipe call fails
\* (main.rs 121-122)
ServerPipeError(r) ==
    IF r.status = "SocketClosed" THEN "Server socket closed" ELSE r.detail

\* pipe(client_stream, server_stream, client_buffer, to_write_to_server)
\* (main.rs 103-112)
PipeClientToServer(c) ==
    /\ h[c].pc = "pipe_cs"
    /\ \E rd \in Reads(h[c].to_write_to_server,
                        Len(ClientSends(c)) - net[c].clientRead) :
       \E wr \in WriteOutcomes :
          LET r == pipe(Drop(ClientSends(c), net[c].clientRead),
                        ClientBuffer(c), h[c].to_write_to_server, rd, wr)
          IN  /\ net' = [net EXCEPT
                            ![c].clientRead = @ + r.nread,
                            ![c].serverRecv = @ \o r.written,
                            ![c].zero = ZeroSocket(r.zero, "client", "server"),
                            ![c].last = r.status]
              /\ IF Continues(r)
                 THEN Goes(c, [h[c] EXCEPT
                                 !.pc = AfterClientPipe(r.bytes_to_pass),
                                 !.client_buffer = r.buffer,
                                 !.to_write_to_server = r.bytes_to_pass])
                 ELSE Return(c, ClientPipeError(r))
    /\ UNCHANGED << clients, listening, accepted >>

\* a faulty variant: when the second pipe call fails, what the first still has
\* pending is written to the upstream before the handler returns
PipeServerToClientDraining(c) ==
    /\ h[c].pc = "pipe_sc"
    /\ \E rd \in Reads(h[c].to_write_to_client,
                        Len(ServerSends(c)) - net[c].serverRead) :
       \E wr \in WriteOutcomes :
          LET r == pipe(Drop(ServerSends(c), net[c].serverRead),
                        ServerBuffer(c), h[c].to_write_to_client, rd, wr)
          IN  /\ net' = [net EXCEPT
                            ![c].serverRead = @ + r.nread,
                            ![c].clientRecv = @ \o r.written,
                            ![c].serverRecv =
                                IF Continues(r) THEN @
                                ELSE @ \o Take(ClientBuffer(c),
                                               h[c].to_write_to_server),
                            ![c].zero = ZeroSocket(r.zero, "server", "client"),
                            ![c].last = r.status]
              /\ IF Continues(r)
                 THEN Goes(c, [h[c] EXCEPT
                                 !.pc = AfterServerPipe(r.bytes_to_pass),
                                 !.server_buffer = r.buffer,
                                 !.to_write_to_client = r.bytes_to_pass])
                 ELSE Return(c, ServerPipeError(r))
    /\ UNCHANGED << clients, listening, accepted >>

\* pipe(server_stream, client_stream, server_buffer, to_write_to_client)
\* (main.rs 114-123)
PipeServerToClient(c) ==
    /\ h[c].pc = "pipe_sc"
    /\ \E rd \in Reads(h[c].to_write_to_client,
                        Len(ServerSends(c)) - net[c].serverRead) :
       \E wr \in WriteOutcomes :
          LET r == pipe(Drop(ServerSends(c), net[c].serverRead),
                        ServerBuffer(c), h[c].to_write_to_client, rd, wr)
          IN  /\ net' = [net EXCEPT
                            ![c].serverRead = @ + r.nread,
                            ![c].clientRecv = @ \o r.written,
                            ![c].zero = ZeroSocket(r.zero, "server", "client"),
                            ![c].last = r.status]
              /\ IF Continues(r)
                 THEN Goes(c, [h[c] EXCEPT
                                 !.pc = AfterServerPipe(r.bytes_to_pass),
                                 !.server_buffer = r.buffer,
                                 !.to_write_to_client = r.bytes_to_pass])
                 ELSE Return(c, ServerPipeError(r))
    /\ UNCHANGED << clients, listening, accepted >>

Handler(c) ==
    \/ HandshakeRead(c)
    \/ HandshakeParse(c)
    \/ Connect(c)
    \/ WriteReply(c)
    \/ ForwardRequest(c)
    \/ SetNonblocking(c)
    \/ PipeClientToServer(c)
    \/ PipeServerToClient(c)

Next ==
    \/ Accept
    \/ AcceptError
    \/ \E c \in Conns : Handler(c)

Spec == Init /\ [][Next]_vars

(***************************************************************************)
(* The properties.                                                         *)
(***************************************************************************)
InRelay(c) == h[c].pc \in {"pipe_cs", "pipe_sc"}

\* the method of the request client c sent
SentMethod(c) == IF ClientSends(c) = << >> THEN None ELSE ClientSends(c)[1].k

\* what the relay has read from the client socket, after the handshake read
RelayReadFromClient(c) ==
    SubSeq(ClientSends(c), net[c].handshake + 1, net[c].clientRead)

\* what has been read from the upstream socket
ReadFromServer(c) == Take(ServerSends(c), net[c].serverRead)

\* how many bytes of the CONNECT reply the client socket was first given
RepliedLen(c) ==
    Cardinality({j \in 1..Len(Reply) :
                   /\ j <= Len(net[c].clientRecv)
                   /\ Take(net[c].clientRecv, j) = Take(Reply, j)})

\* what the client socket was given after the reply
TunnelledToClient(c) == Drop(net[c].clientRecv, RepliedLen(c))

\* C1: in a CONNECT tunnel whose relay is running, what each direction has
\* written to its destination is a prefix, in order, of what it has read from
\* its source, and is all of it whenever the direction's counter is 0.
C1_TunnelTransparency ==
    \A c \in Conns :
        (InRelay(c) /\ h[c].method = "CONNECT") =>
            /\ IsPrefix(net[c].serverRecv, RelayReadFromClient(c))
            /\ h[c].to_write_to_server = 0 =>
                   net[c].serverRecv = RelayReadFromClient(c)
            /\ IsPrefix(TunnelledToClient(c), ReadFromServer(c))
            /\ h[c].to_write_to_client = 0 =>
                   TunnelledToClient(c) = ReadFromServer(c)

\* both directions of a tunnel have relayed all the peers sent, in more
\* than one piece at least one way
C1_Witness ==
    \E c \in Conns :
        /\ InRelay(c) /\ h[c].method = "CONNECT"
        /\ Len(net[c].serverRecv) = MaxData
        /\ Len(TunnelledToClient(c)) = MaxData
        /\ h[c].to_write_to_server = 0 /\ h[c].to_write_to_client = 0
        /\ h[c].client_buffer[BufferLen] = NUL

Started(c) == h[c].pc # "idle"

\* C2: in plain-HTTP mode the upstream first receives exactly the bytes the
\* handshake read took from the client, with nothing appended and nothing
\* cut, and then only what the relay reads; the port is 80 when the URL
\* gives none.
C2_ForwardsRequestUnmodified ==
    \A c \in Conns :
        (h[c].pc \in {"nonblocking", "pipe_cs", "pipe_sc"}
            /\ h[c].method # "CONNECT") =>
            /\ IsPrefix(Take(ClientSends(c), net[c].handshake), net[c].serverRecv)
            /\ IsPrefix(net[c].serverRecv, Take(ClientSends(c), net[c].clientRead))
            /\ h[c].path.k = "URL" => net[c].upstream.port = DefaultPort

\* C3: the reply is written only once the upstream is connected, and the
\* relay of a CONNECT starts only when the client socket has been given the
\* whole reply, so that the reply precedes every tunnelled byte.
C3_ReplyBeforeTunnel ==
    \A c \in Conns :
        /\ RepliedLen(c) > 0 => net[c].upstream # NoAddr
        /\ (InRelay(c) /\ h[c].method = "CONNECT") =>
               IsPrefix(Reply, net[c].clientRecv)

\* the bytes the handshake read took are no complete, well-formed request
Malformed(c) ==
    Parse(Take(ClientSends(c), net[c].handshake)).status # "Complete"

\* C4: a handler whose first request is malformed (truncated within the
\* bytes read, cut by the buffer, or with too many headers) returns at the
\* parse, having attempted no connect and written nothing to the client.
C4_MalformedRequestAborts ==
    \A c \in Conns :
        (h[c].pc \notin {"idle", "read", "parse"} /\ Malformed(c)) =>
            /\ h[c].pc = "returned"
            /\ result[c] # Running
            /\ net[c].connects = 0
            /\ server_stream[c] = "none"
            /\ net[c].clientRecv = << >>

\* the target of client c accepts no connection
Refuses(c) ==
    clients[c].accepts = 0 \/ clients[c].accepts > clients[c].addrs

\* C5: once a CONNECT whose target accepts no connection is past its
\* connect, the handler has returned an error, the client socket is closed
\* and has been given no byte.
C5_RefusedConnectGetsNoReply ==
    \A c \in Conns :
        (h[c].pc \notin {"idle", "read", "parse", "connect"}
            /\ SentMethod(c) = "CONNECT" /\ Refuses(c)) =>
            /\ h[c].pc = "returned"
            /\ result[c] # Running
            /\ client_stream[c] = "closed"
            /\ net[c].clientRecv = << >>

\* a CONNECT has tried every address of its target and returned
C5_Witness ==
    \E c \in Conns :
        /\ h[c].pc = "returned" /\ SentMethod(c) = "CONNECT" /\ Refuses(c)
        /\ result[c] = "connect error"
        /\ net[c].connects = MaxAddrs

\* s holds a byte of another connection than c
Foreign(c, s) == \E j \in 1..Len(s) : s[j].c \notin {0, c}

\* C6: no socket and no buffer of a connection ever holds a byte that a
\* peer of another connection sent.
C6_NoCrossTalk ==
    \A c \in Conns :
        /\ ~Foreign(c, net[c].clientRecv)
        /\ ~Foreign(c, net[c].serverRecv)
        /\ ~Foreign(c, h[c].initial_request_buffer)
        /\ ~Foreign(c, h[c].client_buffer)
        /\ ~Foreign(c, h[c].server_buffer)

\* every connection is relaying and has passed bytes both ways
C6_Witness ==
    \A c \in Conns :
        /\ InRelay(c)
        /\ net[c].serverRecv # << >>
        /\ TunnelledToClient(c) # << >>

\* C7: "Client socket closed" is returned only when the client socket
\* answered 0, "Server socket closed" only when the server socket did.
C7_ReportsClosedSide ==
    \A c \in Conns :
        /\ result[c] = "Client socket closed" => net[c].zero = "client"
        /\ result[c] = "Server socket closed" => net[c].zero = "server"

\* C8: a handler that has returned holds no open socket, and at no time is
\* one of its sockets closed while the other is open.
C8_StreamsReleasedTogether ==
    \A c \in Conns :
        /\ h[c].pc = "returned" =>
               client_stream[c] # "open" /\ server_stream[c] # "open"
        /\ ~(client_stream[c] = "closed" /\ server_stream[c] = "open")
        /\ ~(server_stream[c] = "closed" /\ client_stream[c] = "open")

\* a relay has ended and both of its sockets are closed
C8_Witness ==
    \E c \in Conns :
        /\ h[c].pc = "returned"
        /\ result[c] = "Server socket closed"
        /\ client_stream[c] = "closed" /\ server_stream[c] = "closed"

\* C9: what a client socket has been given is a part of the one CONNECT
\* reply, only for a CONNECT whose upstream is connected, followed by bytes
\* read from that connection's upstream; a handler that never connected has
\* given it nothing.
C9_ClientGetsReplyAndUpstreamOnly ==
    \A c \in Conns :
        Started(c) =>
            /\ IsPrefix(TunnelledToClient(c), ReadFromServer(c))
            /\ RepliedLen(c) > 0 =>
                   SentMethod(c) = "CONNECT" /\ net[c].upstream # NoAddr
            /\ server_stream[c] = "none" => net[c].clientRecv = << >>

\* a plain-HTTP exchange has passed all the upstream sent to the client
C9_Witness ==
    \E c \in Conns :
        /\ InRelay(c) /\ h[c].method = "GET"
        /\ ServerSends(c) # << >>
        /\ net[c].clientRecv = ServerSends(c)

\* C10: the acceptor loop is never left and can accept as long as clients
\* come, and a step in which one handler returns leaves every other
\* handler, its sockets and its traffic as they were.
C10_FailuresStayLocal ==
    /\ [](listening /\ (accepted < Len(clients) => ENABLED Accept))
    /\ [][\A a \in Conns :
             result'[a] # result[a] =>
                 \A b \in Conns \ {a} :
                     /\ h'[b] = h[b]
                     /\ client_stream'[b] = client_stream[b]
                     /\ server_stream'[b] = server_stream[b]
                     /\ net'[b] = net[b]
                     /\ result'[b] = result[b]]_vars

\* one handler has failed, another is relaying, or is still to be accepted
C10_Witness ==
    /\ result[1] # Running
    /\ Len(clients) > 1
    /\ accepted = 1 \/ InRelay(2)

\* C11: in the relay each direction's counter stays within 0..BufferLen, and
\* a pipe call that starts with its counter above 0 reads nothing from its
\* source and leaves its buffer as it was.
C11_ReadsOnlyWhenDrained ==
    /\ [](\A c \in Conns :
            InRelay(c) =>
                /\ h[c].to_write_to_server \in 0..BufferLen
                /\ h[c].to_write_to_client \in 0..BufferLen
                /\ Len(h[c].client_buffer) = BufferLen
                /\ Len(h[c].server_buffer) = BufferLen)
    /\ [][\A c \in Conns :
            /\ (h[c].pc = "pipe_cs" /\ h[c].to_write_to_server > 0) =>
                  /\ net'[c].clientRead = net[c].clientRead
                  /\ InRelay(c)' => h'[c].client_buffer = h[c].client_buffer
            /\ (h[c].pc = "pipe_sc" /\ h[c].to_write_to_client > 0) =>
                  /\ net'[c].serverRead = net[c].serverRead
                  /\ InRelay(c)' => h'[c].server_buffer = h[c].server_buffer
            /\ (InRelay(c) /\ h[c].to_write_to_server > 0) =>
                  net'[c].clientRead = net[c].clientRead
            /\ (InRelay(c) /\ h[c].to_write_to_client > 0) =>
                  net'[c].serverRead = net[c].serverRead]_vars

\* a full client buffer waits to be written while the client has sent more,
\* and the call that may write it is about to run
C11_Witness ==
    \E c \in Conns :
        /\ h[c].pc = "pipe_cs"
        /\ h[c].to_write_to_server = BufferLen
        /\ net[c].clientRead < Len(ClientSends(c))

\* the bytes the first pipe call of connection c has to write in this step:
\* the pending slice of its buffer, or what the call reads when none is
ClientSlice(c) ==
    IF h[c].to_write_to_server > 0
    THEN Take(h[c].client_buffer, h[c].to_write_to_server)
    ELSE SubSeq(ClientSends(c), net[c].clientRead + 1, net'[c].clientRead)

\* the same for the second pipe call
ServerSlice(c) ==
    IF h[c].to_write_to_client > 0
    THEN Take(h[c].server_buffer, h[c].to_write_to_client)
    ELSE SubSeq(ServerSends(c), net[c].serverRead + 1, net'[c].serverRead)

\* C12: a pipe call that has bytes to write, writes none of them and returns
\* Ok (its write would block) leaves the counter at their number and the
\* buffer's first bytes as they were; a later call of that direction that
\* starts with the counter above 0 hands the destination those same bytes,
\* and all of them when it returns Ok.
C12_WouldBlockKeepsPending ==
    [][\A c \in Conns :
         /\ (h[c].pc = "pipe_cs" /\ h'[c].pc = "pipe_sc") =>
               IF net'[c].serverRecv = net[c].serverRecv
               THEN /\ h'[c].to_write_to_server = Len(ClientSlice(c))
                    /\ Take(h'[c].client_buffer, Len(ClientSlice(c)))
                           = ClientSlice(c)
               ELSE /\ net'[c].serverRecv = net[c].serverRecv \o ClientSlice(c)
                    /\ h'[c].to_write_to_server = 0
         /\ (h[c].pc = "pipe_sc" /\ h'[c].pc = "pipe_cs") =>
               IF net'[c].clientRecv = net[c].clientRecv
               THEN /\ h'[c].to_write_to_client = Len(ServerSlice(c))
                    /\ Take(h'[c].server_buffer, Len(ServerSlice(c)))
                           = ServerSlice(c)
               ELSE /\ net'[c].clientRecv = net[c].clientRecv \o ServerSlice(c)
                    /\ h'[c].to_write_to_client = 0
         /\ (h[c].pc = "pipe_cs" /\ h[c].to_write_to_server > 0) =>
               \E k \in 0..h[c].to_write_to_server :
                  net'[c].serverRecv
                      = net[c].serverRecv \o Take(ClientSlice(c), k)
         /\ (h[c].pc = "pipe_sc" /\ h[c].to_write_to_client > 0) =>
               \E k \in 0..h[c].to_write_to_client :
                  net'[c].clientRecv
                      = net[c].clientRecv \o Take(ServerSlice(c), k)]_vars

\* both directions hold bytes their writes would not take, and the first is
\* about to try again
C12_Witness ==
    \E c \in Conns :
        /\ h[c].pc = "pipe_cs"
        /\ h[c].to_write_to_server > 0
        /\ h[c].to_write_to_client > 0
        /\ Len(net[c].serverRecv) < Len(RelayReadFromClient(c))

\* C13: a pipe call whose write takes some but not all of the bytes it has to
\* write ends the handler with the error "Unable to write all bytes to
\* stream" and both streams released; once the handler has returned with that
\* error nothing more is read or written, so the rest is never written.
C13_ShortWriteIsFatal ==
    [][\A c \in Conns :
         /\ ( /\ h[c].pc = "pipe_cs"
              /\ \E k \in 1..(Len(ClientSlice(c)) - 1) :
                    net'[c].serverRecv
                        = net[c].serverRecv \o Take(ClientSlice(c), k) ) =>
               /\ h'[c].pc = "returned"
               /\ result'[c] = "Unable to write all bytes to stream"
               /\ client_stream'[c] = "closed" /\ server_stream'[c] = "closed"
         /\ ( /\ h[c].pc = "pipe_sc"
              /\ \E k \in 1..(Len(ServerSlice(c)) - 1) :
                    net'[c].clientRecv
                        = net[c].clientRecv \o Take(ServerSlice(c), k) ) =>
               /\ h'[c].pc = "returned"
               /\ result'[c] = "Unable to write all bytes to stream"
               /\ client_stream'[c] = "closed" /\ server_stream'[c] = "closed"
         /\ result[c] = "Unable to write all bytes to stream" =>
               /\ net'[c] = net[c]
               /\ h'[c] = h[c]
               /\ result'[c] = result[c]]_vars

\* a tunnel ended by a short write to the upstream: the upstream has part of
\* what the relay read and will never get the rest
C13_Witness ==
    \E c \in Conns :
        /\ result[c] = "Unable to write all bytes to stream"
        /\ SentMethod(c) = "CONNECT"
        /\ net[c].serverRecv # << >>
        /\ IsPrefix(net[c].serverRecv, RelayReadFromClient(c))
        /\ Len(net[c].serverRecv) < Len(RelayReadFromClient(c))

\* what a pipe call returns when it does not return Ok
Failure == {"SocketClosed", "Unknown"}

\* C14: whenever the last pipe call of a connection returned SocketClosed or
\* an error, its handler has returned with both streams released, and from
\* then on no pipe call of that connection runs: its traffic and its handler
\* state stay as they are.
C14_FailureEndsBothDirections ==
    /\ [](\A c \in Conns :
            net[c].last \in Failure =>
                /\ h[c].pc = "returned"
                /\ result[c] # Running
                /\ client_stream[c] = "closed" /\ server_stream[c] = "closed")
    /\ [][\A c \in Conns :
            net[c].last \in Failure =>
                /\ net'[c] = net[c]
                /\ h'[c] = h[c]
                /\ ~ENABLED PipeClientToServer(c)
                /\ ~ENABLED PipeServerToClient(c)]_vars

\* the client closed its side while the upstream still had bytes to send:
\* the handler has returned without relaying them
C14_Witness ==
    \E c \in Conns :
        /\ net[c].last = "SocketClosed"
        /\ net[c].zero = "client"
        /\ h[c].pc = "returned"
        /\ net[c].serverRead < Len(ServerSends(c))

\* a relay with nothing to do: every byte either peer sent has been read
\* and written on, and no socket has answered 0
Silent(c) ==
    /\ InRelay(c)
    /\ net[c].clientRead = Len(ClientSends(c))
    /\ net[c].serverRead = Len(ServerSends(c))
    /\ h[c].to_write_to_server = 0 /\ h[c].to_write_to_client = 0
    /\ net[c].zero = "none"

\* C15: a handler leaves the relay loop exactly in a step whose pipe call
\* returned SocketClosed or an error: a step whose call returned Ok keeps it
\* in the loop, no other step ends it, and a relay always has a step that
\* keeps it looping; with both peers silent that step changes nothing but
\* the direction whose turn it is.
C15_LoopEndsOnlyOnFailure ==
    /\ [][\A c \in Conns :
            InRelay(c) =>
                /\ h'[c].pc \in {"pipe_cs", "pipe_sc", "returned"}
                /\ h'[c].pc = "returned" <=> net'[c].last \in Failure
                /\ h'[c].pc = "returned" =>
                      result'[c] \in {"Client socket closed",
                                      "Server socket closed", "read error",
                                      "write error",
                                      "Unable to write all bytes to stream"}]_vars
    /\ [](\A c \in Conns :
            /\ InRelay(c) => ENABLED (Handler(c) /\ InRelay(c)')
            /\ Silent(c) =>
                  ENABLED ( /\ Handler(c)
                            /\ Silent(c)'
                            /\ h'[c].pc # h[c].pc
                            /\ net'[c] = [net[c] EXCEPT !.last = "Ok"] ))

\* both peers are open and silent after traffic in both directions, and the
\* loop has been round at least once
C15_Witness ==
    \E c \in Conns :
        /\ Silent(c)
        /\ net[c].last = "Ok"
        /\ h[c].pc = "pipe_cs"
        /\ net[c].serverRecv # << >>
        /\ TunnelledToClient(c) # << >>

\* C16: a pipe call that starts with its counter at 0 and returns Ok having
\* read nothing (its read would block: a read of 0 bytes or a failed read
\* makes the call fail) leaves the counter at 0 and the buffer, what both
\* sockets have received, both read positions and both streams unchanged.
C16_IdleCallIsNoOp ==
    [][\A c \in Conns :
         /\ ( /\ h[c].pc = "pipe_cs" /\ h'[c].pc = "pipe_sc"
              /\ h[c].to_write_to_server = 0
              /\ net'[c].clientRead = net[c].clientRead ) =>
               /\ h'[c] = [h[c] EXCEPT !.pc = "pipe_sc"]
               /\ net'[c] = [net[c] EXCEPT !.last = "Ok"]
               /\ client_stream'[c] = client_stream[c]
               /\ server_stream'[c] = server_stream[c]
               /\ result'[c] = Running
         /\ ( /\ h[c].pc = "pipe_sc" /\ h'[c].pc = "pipe_cs"
              /\ h[c].to_write_to_client = 0
              /\ net'[c].serverRead = net[c].serverRead ) =>
               /\ h'[c] = [h[c] EXCEPT !.pc = "pipe_cs"]
               /\ net'[c] = [net[c] EXCEPT !.last = "Ok"]
               /\ client_stream'[c] = client_stream[c]
               /\ server_stream'[c] = server_stream[c]
               /\ result'[c] = Running]_vars

\* the relay has read nothing from the client yet although the client has
\* bytes ready, and has been round the loop: each first pipe call so far was
\* such a call, the last one just now, and the client buffer is still blank
C16_Witness ==
    \E c \in Conns :
        /\ h[c].pc = "pipe_sc"
        /\ net[c].last = "Ok"
        /\ net[c].clientRead = net[c].handshake
        /\ net[c].clientRead < Len(ClientSends(c))
        /\ net[c].serverRead > 0
        /\ h[c].to_write_to_server = 0
        /\ h[c].client_buffer = Zeros(BufferLen)

\* the bytes of client c that its handler's first read took
HandshakeBytes(c) == Take(ClientSends(c), net[c].handshake)

\* C17: for a client that sent a CONNECT, the upstream never receives a byte
\* the handshake read took, nor padding of the request buffer: at every
\* moment what it has received is a prefix of what the relay's first pipe
\* call read from the client after the handshake read.
C17_HandshakeBytesStayLocal ==
    \A c \in Conns :
        (Started(c) /\ SentMethod(c) = "CONNECT") =>
            /\ \A j \in 1..Len(net[c].serverRecv) :
                  /\ net[c].serverRecv[j] # NUL
                  /\ \A i \in 1..Len(HandshakeBytes(c)) :
                        net[c].serverRecv[j] # HandshakeBytes(c)[i]
            /\ IsPrefix(net[c].serverRecv, RelayReadFromClient(c))

\* the handshake read of a CONNECT took tunnel data along with the request,
\* the relay has passed on all that came later, and the upstream has less
\* than the client sent after its request
C17_Witness ==
    \E c \in Conns :
        /\ Started(c) /\ SentMethod(c) = "CONNECT"
        /\ \E i \in 1..net[c].handshake : ClientSends(c)[i].k = "DATA"
        /\ net[c].serverRecv # << >>
        /\ net[c].serverRecv = RelayReadFromClient(c)
        /\ net[c].clientRead = Len(ClientSends(c))

C19_PendingBytesAreAbandoned ==
    [][\A c \in Conns :
         /\ ( /\ h[c].pc = "pipe_sc" /\ h[c].to_write_to_server > 0
              /\ net'[c].last \in Failure ) =>
               /\ h'[c].pc = "returned"
               /\ net'[c].serverRecv = net[c].serverRecv
               /\ h[c].method = "CONNECT" =>
                      Len(net'[c].serverRecv) + h[c].to_write_to_server
                          = Len(RelayReadFromClient(c)')
               /\ client_stream'[c] = "closed" /\ server_stream'[c] = "closed"
         /\ ( /\ h[c].pc = "pipe_cs" /\ h[c].to_write_to_client > 0
              /\ net'[c].last \in Failure ) =>
               /\ h'[c].pc = "returned"
               /\ net'[c].clientRecv = net[c].clientRecv
               /\ client_stream'[c] = "closed" /\ server_stream'[c] = "closed"
         /\ h[c].pc = "returned" =>
               /\ h'[c].pc = "returned"
               /\ net'[c].serverRecv = net[c].serverRecv
               /\ net'[c].clientRecv = net[c].clientRecv
               /\ client_stream'[c] = client_stream[c]
               /\ server_stream'[c] = server_stream[c]]_vars

\* the upstream closed while bytes read from the client were waiting for a
\* write that would block: the handler has returned and the upstream is
\* short of them
C19_Witness ==
    \E c \in Conns :
        /\ h[c].pc = "returned"
        /\ result[c] = "Server socket closed"
        /\ net[c].zero = "server"
        /\ SentMethod(c) = "CONNECT"
        /\ Len(net[c].serverRecv) < Len(RelayReadFromClient(c))

\* C20: the relay starts with the first pipe call (client to server) before
\* any pipe call has returned; every step of a handler that stays in the
\* relay passes from the first pipe call to the second and from the second
\* to the first, whatever the counters are; and when one direction's bytes
\* are held by a write that would block while the other direction has
\* nothing pending and bytes to read, the other direction's call is the
\* next one and can read and deliver bytes with the relay going on.
C20_StrictAlternation ==
    /\ [][\A c \in Conns :
            /\ (h[c].pc = "nonblocking" /\ h'[c].pc # "returned"
                    /\ h'[c] # h[c]) =>
                  h'[c].pc = "pipe_cs" /\ net'[c].last = "none"
            /\ (h[c].pc = "pipe_cs" /\ h'[c].pc # "returned"
                    /\ h'[c] # h[c]) =>
                  h'[c].pc = "pipe_sc"
            /\ (h[c].pc = "pipe_sc" /\ h'[c].pc # "returned"
                    /\ h'[c] # h[c]) =>
                  h'[c].pc = "pipe_cs"]_vars
    /\ [](\A c \in Conns :
            /\ ( /\ InRelay(c)
                 /\ h[c].to_write_to_server > 0 /\ h[c].to_write_to_client = 0
                 /\ net[c].serverRead < Len(ServerSends(c)) ) =>
                  \/ /\ h[c].pc = "pipe_sc"
                     /\ ENABLED ( /\ PipeServerToClient(c)
                                  /\ net'[c].clientRecv # net[c].clientRecv
                                  /\ InRelay(c)' )
                  \/ /\ h[c].pc = "pipe_cs"
                     /\ ENABLED ( /\ PipeClientToServer(c)
                                  /\ h'[c] = [h[c] EXCEPT !.pc = "pipe_sc"] )
            /\ ( /\ InRelay(c)
                 /\ h[c].to_write_to_client > 0 /\ h[c].to_write_to_server = 0
                 /\ net[c].clientRead < Len(ClientSends(c)) ) =>
                  \/ /\ h[c].pc = "pipe_cs"
                     /\ ENABLED ( /\ PipeClientToServer(c)
                                  /\ net'[c].serverRecv # net[c].serverRecv
                                  /\ InRelay(c)' )
                  \/ /\ h[c].pc = "pipe_sc"
                     /\ ENABLED ( /\ PipeServerToClient(c)
                                  /\ h'[c] = [h[c] EXCEPT !.pc = "pipe_cs"] ))

\* the first pipe call has just returned with its bytes held by a write that
\* would block, not for the first time round, and the second is next with
\* upstream bytes still to read, some already delivered
C20_Witness ==
    \E c \in Conns :
        /\ h[c].pc = "pipe_sc"
        /\ net[c].last = "Ok"
        /\ h[c].to_write_to_server > 0
        /\ h[c].to_write_to_client = 0
        /\ 0 < net[c].serverRead
        /\ net[c].serverRead < Len(ServerSends(c))
        /\ Len(net[c].clientRecv) > RepliedLen(c)

=============================================================================
